---------------------------- MODULE Spec2Model ----------------------------
(***************************************************************************)
(* FlightTrack: the price-tracking store functions (app/database.py) and   *)
(* the scheduled check run (scripts/check_flights.py).                     *)
(*                                                                         *)
(* Spec       the scheduled run check_all_flights, one store or adapter    *)
(*            call per step, over a search adapter that answers as its     *)
(*            contract says (success with a quote, success=false, no       *)
(*            response, or an exception).                                  *)
(* SpecStore  the tracking-update functions of app/database.py applied     *)
(*            directly, in any order, with any price.                      *)
(* SpecCrud   watches created and deleted, with their tracking rows.       *)
(* SpecNorm   extract_cheapest_flight applied to any provider response.    *)
(* SpecTold   the run over one watch, with the emails that were sent.      *)
(* SpecLogged the run over one watch, with the warnings it prints.         *)
(* SpecMarked the tracking updates and the notified-marker write on a row. *)
(* SpecRace   the run over one watch while the dashboard searches it.      *)
(* SpecCall   the call of search_flights as check_all_flights writes it.   *)
(*                                                                         *)
(* Store reads (get_price_tracking) return the stored row; store writes    *)
(* may be rejected, which the code turns into "no change".                 *)
(***************************************************************************)
EXTENDS Integers, Sequences, FiniteSets, TLC

\* ------------------------------------------------------------- bounds
MaxPrice == 3
MaxClock == 4
\* Flight entries of one provider response, over its three lists.
MaxEntries == 2
\* Legs of one flight entry, outbound and return together.
MaxLegs == 3
\* Scheduled runs that a manual search may interleave with.
MaxRaceRuns == 2
\* Passengers of one watch (the form allows 1 to 9).
MaxPassengers == 3

\* Python None in a price or timestamp column.
Null == -1

Watches == {"A", "B"}
Users == {"u1", "u2"}
\* The user_id of a watch id that has no row in search_requests.
NoOwner == "none"
\* The lists get_all_active_search_requests may return.
ActiveLists == {<< >>, <<"A">>, <<"A", "B">>}

\* A float handed to a store function: 0.0 is a float like any other.
PriceValues == 0..MaxPrice
PriceArgs == PriceValues \cup {Null}

VARIABLES
    price_tracking,          \* table price_tracking: watch id -> row
    now,                     \* datetime.utcnow(), one tick per run
    dry_run,                 \* PRICE_ALERT_DRY_RUN
    pc,                      \* position of check_all_flights
    active_requests, idx,    \* the list being iterated and the 1-based index
    success_count, failure_count, errors,
    price,                   \* locals of one iteration of the loop
    old_minimum_price, old_last_notified_price,
    current_minimum,         \* current_tracking's minimum_price inside the update
    latest_price, email_sent, result,
    before,                  \* history: the row before the current cycle or store call
    decision_made,           \* history: should_send_price_alert was evaluated
    decided,                 \* history: its value
    send_attempted,          \* history: send_price_drop_email was called
    transmitted,             \* history: an SMTP message left the process
    floor,                   \* history: least non-null price of the accepted updates
    last_call,               \* history: the latest tracking update and its fate
    owed,                    \* history: the previous cycle's failed alert, per watch
    run_log,                 \* history: the outcome of each search of the run
    untouched,               \* history: the rows no step of the run has changed
    exit_code,               \* the status main exits with
    told,                    \* history: the price of the last email sent, per watch
    printed,                 \* history: the persistence warnings printed in the cycle
    search_requests,         \* table search_requests: watch id -> owner, or NoOwner
    data,                    \* the provider response handed to extract_cheapest_flight
    extracted,               \* what extract_cheapest_flight returned
    normalized,              \* extract_cheapest_flight has returned
    request,                 \* the watch whose search is called
    call,                    \* what calling search_flights for it did
    dash                     \* the dashboard's manual search of watch A

locals == <<price, old_minimum_price, old_last_notified_price, current_minimum,
            latest_price, email_sent, result>>
history == <<before, decision_made, decided, send_attempted, transmitted>>
counters == <<success_count, failure_count, errors>>
audit == <<run_log, untouched, exit_code, told, printed>>
crud == <<search_requests>>
norm == <<data, extracted, normalized>>
binding == <<request, call, dash>>
other == <<crud, norm, binding>>
vars == <<price_tracking, now, dry_run, other, pc, active_requests, idx, counters,
          locals, history, floor, last_call, owed, audit>>

\* ------------------------------------------------------------- rows
\* create_price_tracking: every price column of a new row is null.
FreshRecord ==
    [present |-> TRUE, minimum_price |-> Null, latest_price |-> Null,
     last_notified_price |-> Null, last_checked |-> Null]

\* What a select returns when no row matches (result.data is empty).
NoRecord ==
    [present |-> FALSE, minimum_price |-> Null, latest_price |-> Null,
     last_notified_price |-> Null, last_checked |-> Null]

get_price_tracking(id) == price_tracking[id]

Min(a, b) == IF a <= b THEN a ELSE b

\* ------------------------------------------------------------- database.py
\* Mutants of the minimum computation.
NextMinimumOverwrite(current, p) == p
NextMinimumMax(current, p) ==
    IF current # Null
    THEN IF p # Null THEN (IF current >= p THEN current ELSE p) ELSE current
    ELSE p
NextMinimumNullErases(current, p) ==
    IF current # Null /\ p # Null THEN Min(current, p) ELSE p

\* update_price_tracking_with_result, lines 275-285: the minimum to store, from
\* the minimum read (Null when there is no row or no minimum yet) and the price.
NextMinimum(current, p) ==
    IF current # Null
    THEN IF p # Null THEN Min(current, p) ELSE current
    ELSE IF p = Null THEN Null ELSE p

\* update_price_tracking, lines 236-244: the same computation of the basic update.
FinalMinimum(current, p) ==
    IF current # Null
    THEN IF p # Null THEN Min(current, p) ELSE current
    ELSE p

\* Mutant: the update statement also stores the price as the notified marker.
WithResultRowMarks(row, current, p) ==
    [row EXCEPT !.latest_price = p,
                !.minimum_price = NextMinimum(current, p),
                !.last_checked = now,
                !.last_notified_price = p]

\* The row after update_price_tracking_with_result's update statement.
WithResultRow(row, current, p) ==
    [row EXCEPT !.latest_price = p,
                !.minimum_price = NextMinimum(current, p),
                !.last_checked = now]

\* The row after update_price_tracking's update statement.
BasicRow(row, current, p) ==
    [row EXCEPT !.minimum_price = FinalMinimum(current, p),
                !.last_checked = now]

\* History of the accepted updates' non-null prices.
FloorAfter(f, p) == IF p = Null THEN f ELSE IF f = Null THEN p ELSE Min(f, p)

NoCall == [fn |-> "none", id |-> "A", price |-> Null, ok |-> FALSE]
NoOwed == [set |-> FALSE, baseline |-> Null, price |-> Null]

\* The scheduled run and the history before anything happened.
InitLoop ==
    /\ now = 0
    /\ dry_run \in BOOLEAN
    /\ pc = "idle"
    /\ active_requests = << >>
    /\ idx = 0
    /\ success_count = 0 /\ failure_count = 0 /\ errors = << >>
    /\ price = Null
    /\ old_minimum_price = Null /\ old_last_notified_price = Null
    /\ current_minimum = Null
    /\ latest_price = Null /\ email_sent = FALSE /\ result = FALSE
    /\ before = NoRecord
    /\ decision_made = FALSE /\ decided = FALSE
    /\ send_attempted = FALSE /\ transmitted = FALSE
    /\ floor = [w \in Watches |-> Null]
    /\ last_call = NoCall
    /\ owed = [w \in Watches |-> NoOwed]
    /\ run_log = << >>
    /\ untouched = Watches
    /\ exit_code = Null
    /\ told = [w \in Watches |-> Null]
    /\ printed = {}

\* A watch of search_requests as the scheduler reads it: return_date,
\* preferred_airlines and stops may be missing.
NoDate == 0
Requests ==
    [depart_from : {"JFK"}, arrive_at : {"LAX"}, departure_date : {1},
     return_date : {NoDate, 2},
     passengers : 1..MaxPassengers,
     preferred_airlines : {[present |-> FALSE, list |-> << >>],
                           [present |-> TRUE, list |-> << >>],
                           [present |-> TRUE, list |-> <<"DL">>]},
     stops : {Null, 0, 1, 2}]

\* The values the parameters of search_flights are bound to; none yet.
NoParams ==
    [depart_from |-> "", arrive_at |-> "", departure_date |-> 0,
     return_date |-> NoDate, passengers |-> 0,
     preferred_airlines |-> [present |-> FALSE, list |-> << >>]]
NotCalled == [made |-> FALSE, raised |-> FALSE, params |-> NoParams]
NoRequest ==
    [depart_from |-> "JFK", arrive_at |-> "LAX", departure_date |-> 1,
     return_date |-> NoDate, passengers |-> 1,
     preferred_airlines |-> [present |-> FALSE, list |-> << >>], stops |-> Null]

\* No manual search is under way.
NoManualSearch == [pc |-> "idle", price |-> Null, current_minimum |-> Null]

\* Everything but the two tables: no run has started, no call was made.
InitRun ==
    /\ InitLoop
    /\ request = NoRequest
    /\ call = NotCalled
    /\ dash = NoManualSearch

\* ------------------------------------------------------------- serpapi_service.py
\* A total that float() cannot convert, such as 'N/A'.
Text == -2
\* float('inf'), the sort key of an entry without a price.
Infinity == MaxPrice + 1

\* DEFAULT_CURRENCY, and the 'currency' a price block may carry ("" when it
\* has none).
DEFAULT_CURRENCY == "USD"
Currencies == {"", "EUR"}

\* The 'price' of a flight entry: no such key; a block {'total': t} whose total
\* is a number, a text, or missing (Null); a bare number; a bare text.
PriceBlocks ==
    {[kind |-> "missing", total |-> Null, currency |-> ""],
     [kind |-> "text", total |-> Null, currency |-> ""]}
    \cup {[kind |-> "block", total |-> t, currency |-> c] :
            t \in PriceValues \cup {Null, Text}, c \in Currencies}
    \cup {[kind |-> "number", total |-> n, currency |-> ""] : n \in PriceValues}

\* One leg of a flight entry: a dict with an 'airline' (possibly ''), or
\* something parse_segments cannot read.
Airlines == {"", "DL", "UA"}
Legs ==
    {[parses |-> FALSE, airline |-> ""]}
    \cup {[parses |-> TRUE, airline |-> a] : a \in Airlines}

\* A key of a dict that holds a list: absent, or present with the list.
Absent == [present |-> FALSE, list |-> << >>]
Listed(l) == [present |-> TRUE, list |-> l]
ListsOf(S, n) == IF n = 0 THEN {Absent, Listed(<< >>)}
                 ELSE {Listed(l) : l \in [1..n -> S]}

\* Flight entries with one outbound leg, and flight entries with any legs.
Links == {"", "https://book"}
PlainEntries ==
    {[price |-> p,
      flights |-> Listed(<<[parses |-> TRUE, airline |-> "DL"]>>),
      return_flights |-> Absent,
      link |-> ""] : p \in {b \in PriceBlocks : b.currency = ""}}
LegEntries ==
    UNION {[price : PriceBlocks,
            flights : ListsOf(Legs, n),
            return_flights : ListsOf(Legs, m),
            link : Links] :
           <<n, m>> \in {nm \in (0..MaxLegs) \X (0..MaxLegs) : nm[1] + nm[2] <= MaxLegs}}

\* The provider responses: up to MaxEntries plain entries over the three
\* lists, or one best flight with any legs.
Payloads ==
    UNION {[best_flights : ListsOf(PlainEntries, k[1]),
            other_flights : ListsOf(PlainEntries, k[2]),
            flights : ListsOf(PlainEntries, k[3])] :
           k \in {t \in (0..MaxEntries) \X (0..MaxEntries) \X (0..MaxEntries) :
                    t[1] + t[2] + t[3] <= MaxEntries}}
    \cup {[best_flights |-> Listed(<<e>>), other_flights |-> Absent,
           flights |-> Absent] : e \in LegEntries}

\* Mutant: the first leg that raises ends the parsing of the list.
parse_segments_until_failure(segments) ==
    LET bad == {i \in 1..Len(segments) : ~segments[i].parses}
        n == IF bad = {} THEN Len(segments)
             ELSE (CHOOSE i \in bad : \A j \in bad : i <= j) - 1
    IN  [i \in 1..n |-> [airline |-> segments[i].airline]]

\* parse_segments: the legs that parse, in order; a leg that raises is dropped.
parse_segments(segments) ==
    LET kept == SelectSeq(segments, LAMBDA s : s.parses)
    IN  [i \in 1..Len(kept) |-> [airline |-> kept[i].airline]]

\* Lines 279-283: the non-empty airline names of the segments, each once, in
\* the order of first appearance.
RECURSIVE AirlinesOf(_, _)
AirlinesOf(segments, airlines) ==
    IF segments = << >> THEN airlines
    ELSE LET a == Head(segments).airline
         IN  AirlinesOf(Tail(segments),
                        IF a # "" /\ \A i \in 1..Len(airlines) : airlines[i] # a
                        THEN Append(airlines, a) ELSE airlines)

\* None, as extract_cheapest_flight returns it.
NoQuote ==
    [found |-> FALSE, price |-> Null, currency |-> "", airlines |-> << >>,
     outbound_segments |-> << >>, return_segments |-> << >>, link |-> "",
     error |-> FALSE, raw_data |-> Absent]

\* parse_flight_data, lines 256-264: the price of the entry; float() of a text
\* total raises.
PriceRaises(price_info) == price_info.kind = "block" /\ price_info.total = Text
PriceOf(price_info) ==
    IF price_info.kind = "block"
    THEN (IF price_info.total # Null /\ price_info.total # 0
          THEN price_info.total ELSE Null)
    ELSE IF price_info.kind = "number" THEN price_info.total
    ELSE Null
\* Lines 255 and 259: the currency of the price block, else the default.
CurrencyOf(price_info) ==
    IF price_info.kind = "block" /\ price_info.currency # ""
    THEN price_info.currency ELSE DEFAULT_CURRENCY

\* parse_flight_data, lines 254-321: the quote of one flight entry, or the
\* error quote of the except branch.
parse_flight_data(flight_data) ==
    IF PriceRaises(flight_data.price)
    THEN [found |-> TRUE, price |-> Null, currency |-> DEFAULT_CURRENCY,
          airlines |-> << >>,
          outbound_segments |-> << >>, return_segments |-> << >>, link |-> "",
          error |-> TRUE, raw_data |-> flight_data]
    ELSE LET outbound_segments == parse_segments(flight_data.flights.list)
             return_segments == parse_segments(flight_data.return_flights.list)
         IN  [found |-> TRUE, price |-> PriceOf(flight_data.price),
              currency |-> CurrencyOf(flight_data.price),
              airlines |-> AirlinesOf(outbound_segments, << >>),
              outbound_segments |-> outbound_segments,
              return_segments |-> return_segments,
              link |-> flight_data.link,
              error |-> FALSE, raw_data |-> flight_data]

\* Lines 227 and 233, the key of min: float(x.get('price', {}).get('total',
\* inf)). A price that is not a dict has no get, a text total does not convert.
KeyRaises(x) ==
    \/ x.price.kind \in {"number", "text"}
    \/ x.price.kind = "block" /\ x.price.total = Text
SortKey(x) ==
    IF x.price.kind = "block" /\ x.price.total # Null THEN x.price.total
    ELSE Infinity

\* min(flights, key=...): the first entry of the least key.
Cheapest(flights) ==
    flights[CHOOSE i \in 1..Len(flights) :
                /\ \A j \in 1..Len(flights) : SortKey(flights[i]) <= SortKey(flights[j])
                /\ \A j \in 1..(i - 1) : SortKey(flights[j]) > SortKey(flights[i])]

\* Lines 226-229 and 232-235: an unranked list; an exception of the key leaves
\* through the except of line 240, which returns None.
FromUnranked(flights) ==
    IF \E i \in 1..Len(flights) : KeyRaises(flights[i])
    THEN NoQuote
    ELSE parse_flight_data(Cheapest(flights))

NonEmpty(key) == key.present /\ Len(key.list) > 0

\* extract_cheapest_flight, lines 214-242.
extract_cheapest_flight(d) ==
    IF NonEmpty(d.best_flights) THEN parse_flight_data(d.best_flights.list[1])
    ELSE IF NonEmpty(d.other_flights) THEN FromUnranked(d.other_flights.list)
    ELSE IF NonEmpty(d.flights) THEN FromUnranked(d.flights.list)
    ELSE NoQuote

\* No response has been handed to the normalizer.
NoResponse ==
    /\ data = [best_flights |-> Absent, other_flights |-> Absent, flights |-> Absent]
    /\ extracted = NoQuote
    /\ normalized = FALSE

\* The tables the scheduled run starts from: both watches exist; a watch whose
\* create_price_tracking failed has no row.
Init ==
    /\ search_requests = [w \in Watches |-> "u1"]
    /\ price_tracking \in [Watches -> {FreshRecord, NoRecord}]
    /\ NoResponse
    /\ InitRun

\* ------------------------------------------------------------- utils.py
\* What search_flights hands back as cheapest_flight: nothing, or a parsed flight
\* whose 'price' is None, a number, or a price block {'total': ...}.
NoFlight == [found |-> FALSE, kind |-> "none", total |-> Null]
Flights ==
    {NoFlight}
    \cup {[found |-> TRUE, kind |-> "none", total |-> Null]}
    \cup {[found |-> TRUE, kind |-> "number", total |-> n] : n \in PriceValues}
    \cup {[found |-> TRUE, kind |-> "dict", total |-> n] : n \in PriceArgs}

\* get_cheapest_price_from_flight: a price block with a falsy total (None, 0)
\* gives None; a bare number is taken as it is, 0 included.
get_cheapest_price_from_flight(flight_data) ==
    IF ~flight_data.found THEN Null
    ELSE IF flight_data.kind = "dict"
         THEN (IF flight_data.total # Null /\ flight_data.total # 0
               THEN flight_data.total ELSE Null)
    ELSE IF flight_data.kind = "number" THEN flight_data.total
    ELSE Null

\* Python truth of a price: None and 0.0 are false.
Truthy(p) == p # Null /\ p # 0

\* The baseline of an alert decision: the last notified price when there is
\* one, else the minimum (Null when there is neither).
Baseline(minimum_price, last_notified_price) ==
    IF last_notified_price # Null THEN last_notified_price ELSE minimum_price

\* should_send_price_alert(latest_price, minimum_price, last_notified_price).
should_send_price_alert(latest, minimum_price, last_notified_price) ==
    /\ latest # Null
    /\ Baseline(minimum_price, last_notified_price) # Null
    /\ latest < Baseline(minimum_price, last_notified_price)

\* ------------------------------------------------------------- check_flights.py
\* What get_user_by_id answers for the watch's owner.
UserResults == {"with_email", "no_email", "no_user"}

\* Mutant: the old row is read after the update has been stored.
OldTrackingAfterUpdate(id) ==
    LET row == get_price_tracking(id)
    IN  IF row.present THEN WithResultRow(row, row.minimum_price, price) ELSE row

\* Lines 77-80: the row read before the update of the cycle.
OldTracking(id) == get_price_tracking(id)

\* Mutants of the alert decision's arguments.
AlertDecisionMinimumOnly(latest, old_minimum, old_last_notified) ==
    should_send_price_alert(latest, old_minimum, Null)
AlertDecisionNoBaseline(latest, old_minimum, old_last_notified) ==
    \/ should_send_price_alert(latest, old_minimum, old_last_notified)
    \/ latest # Null /\ old_minimum = Null /\ old_last_notified = Null

\* Mutant: a price equal to the baseline is a drop too.
AlertDecisionNotStrict(latest, old_minimum, old_last_notified) ==
    /\ latest # Null
    /\ Baseline(old_minimum, old_last_notified) # Null
    /\ latest <= Baseline(old_minimum, old_last_notified)

\* Lines 103-113: the decision is taken on the re-read latest price and the old
\* minimum and old last notified price.
AlertDecision(latest, old_minimum, old_last_notified) ==
    should_send_price_alert(latest, old_minimum, old_last_notified)

\* Mutants of the marker guard.
ShouldMarkAlways(sent, dry) == ~dry
ShouldMarkDryRunToo(sent, dry) == sent

\* Line 152: the notified marker is written after a real, successful send.
ShouldMark(sent, dry) == sent /\ ~dry

\* Mutant: the marker takes the baseline instead of the new price.
NotifiedPriceBaseline == Baseline(old_minimum_price, old_last_notified_price)

\* Line 153: the price handed to mark_price_notified.
NotifiedPrice == latest_price

\* mark_price_notified(id, price): the row with the marker set.
mark_price_notified(row, p) == [row EXCEPT !.last_notified_price = p]

request_id == active_requests[idx]

\* History: the rows that are still what they were when the run started.
Unchanged == {w \in untouched : price_tracking'[w] = price_tracking[w]}

ResetLocals ==
    /\ price' = Null
    /\ old_minimum_price' = Null /\ old_last_notified_price' = Null
    /\ current_minimum' = Null
    /\ latest_price' = Null /\ email_sent' = FALSE /\ result' = FALSE
    /\ before' = NoRecord
    /\ decision_made' = FALSE /\ decided' = FALSE
    /\ send_attempted' = FALSE /\ transmitted' = FALSE

\* Lines 36-53: a run starts; an empty list returns (0, 0, []) at once.
StartWith(lists) ==
    /\ pc \in {"idle", "exited"}
    /\ now < MaxClock
    /\ now' = now + 1
    /\ \E l \in lists :
        /\ active_requests' = l
        /\ IF l = << >>
           THEN pc' = "returned" /\ idx' = 0
           ELSE pc' = "search" /\ idx' = 1
    /\ success_count' = 0 /\ failure_count' = 0 /\ errors' = << >>
    /\ run_log' = << >> /\ untouched' = Watches /\ exit_code' = Null
    /\ UNCHANGED <<told, printed>>
    /\ UNCHANGED <<price_tracking, dry_run, other, locals, history, floor, last_call, owed>>

StartRun == StartWith(ActiveLists)

\* A run in which A is the only active watch, or none is.
StartRunOfA == StartWith({<< >>, <<"A">>})

\* Mutant: a failed check is recorded and not counted.
FailureUncounted(msg) ==
    /\ errors' = Append(errors, [request_id |-> request_id, error |-> msg])
    /\ pc' = "cycle_done"
    /\ UNCHANGED <<success_count, failure_count>>

\* Mutant: a failed check is counted and not recorded.
FailureUnlisted(msg) ==
    /\ failure_count' = failure_count + 1
    /\ pc' = "cycle_done"
    /\ UNCHANGED <<success_count, errors>>

\* A failed check: lines 176-203.
Failure(msg) ==
    /\ errors' = Append(errors, [request_id |-> request_id, error |-> msg])
    /\ failure_count' = failure_count + 1
    /\ pc' = "cycle_done"
    /\ UNCHANGED success_count

\* The error text of a search that succeeded without a usable price (line 180).
NoPriceFound == "Flight search completed but no price found"
\* The error texts of a search that failed: an exception (line 200), no
\* response (line 186), success=false (line 186).
SearchFaults == {"Exception", "No response from API", "search error"}

\* Lines 53-76 and 176-203: the fields of the request are read, outside the
\* try; then the search and the branch on its outcome. A request without one of
\* the fields raises KeyError out of check_all_flights. The adapter raises,
\* returns None, returns success=false, or returns success with cheapest_flight.
Search ==
    /\ pc = "search"
    /\ before' = get_price_tracking(request_id)
    /\ \/ /\ pc' = "raised"
          /\ UNCHANGED <<counters, price, run_log>>
       \/ \E msg \in SearchFaults :
            /\ Failure(msg)
            /\ run_log' = Append(run_log, msg)
            /\ UNCHANGED price
       \/ \E cheapest_flight \in Flights :
            LET p == get_cheapest_price_from_flight(cheapest_flight)
            IN  /\ price' = p
                /\ IF Truthy(p)
                   THEN /\ pc' = "read_old"
                        /\ run_log' = Append(run_log, "priced")
                        /\ UNCHANGED counters
                   ELSE /\ Failure(NoPriceFound)
                        /\ run_log' = Append(run_log, "no_price")
    /\ UNCHANGED <<untouched, exit_code, told, printed>>
    /\ UNCHANGED <<price_tracking, now, dry_run, other, active_requests, idx,
                   old_minimum_price, old_last_notified_price, current_minimum,
                   latest_price, email_sent, result,
                   decision_made, decided, send_attempted, transmitted,
                   floor, last_call, owed>>

\* Lines 77-80: the old minimum and old last notified price are kept.
ReadOld ==
    /\ pc = "read_old"
    /\ LET old_tracking == OldTracking(request_id)
       IN  /\ old_minimum_price' =
                IF old_tracking.present THEN old_tracking.minimum_price ELSE Null
           /\ old_last_notified_price' =
                IF old_tracking.present THEN old_tracking.last_notified_price ELSE Null
    /\ pc' = "update_read"
    /\ UNCHANGED <<price_tracking, now, dry_run, other, active_requests, idx, counters,
                   price, current_minimum, latest_price, email_sent, result,
                   history, floor, last_call, owed, audit>>

\* update_price_tracking_with_result, line 274: the update reads the row.
UpdateRead ==
    /\ pc = "update_read"
    /\ current_minimum' = get_price_tracking(request_id).minimum_price
    /\ pc' = "update_write"
    /\ UNCHANGED <<price_tracking, now, dry_run, other, active_requests, idx, counters,
                   price, old_minimum_price, old_last_notified_price,
                   latest_price, email_sent, result, history, floor, last_call, owed,
                   audit>>

\* update_price_tracking_with_result, lines 275-308, and lines 92-94: the update
\* statement, which the store may reject, then the cycle counts as a success.
UpdateWriteStep ==
    /\ pc = "update_write"
    /\ \E ok \in BOOLEAN :
        LET row == get_price_tracking(request_id)
            applied == ok /\ row.present
        IN  /\ price_tracking' =
                IF applied
                THEN [price_tracking EXCEPT
                        ![request_id] = WithResultRow(row, current_minimum, price)]
                ELSE price_tracking
            /\ floor' = IF applied
                        THEN [floor EXCEPT ![request_id] = FloorAfter(@, price)]
                        ELSE floor
            /\ last_call' = [fn |-> "update_price_tracking_with_result",
                             id |-> request_id, price |-> price, ok |-> applied]
    /\ untouched' = Unchanged
    /\ success_count' = success_count + 1
    /\ pc' = "alert"
    /\ UNCHANGED <<now, dry_run, other, active_requests, idx, failure_count, errors,
                   locals, history, owed, run_log, exit_code, told>>

UpdateWrite == UpdateWriteStep /\ UNCHANGED printed

\* The line database.py prints when the update statement raised (line 307).
UpdateError == "Error updating price tracking with result"
\* The line check_flights.py prints when the marker write failed (line 157).
MarkerWarning == "WARNING: Failed to update last_notified_price in database"

\* The same step with what it prints: a rejected update either raised inside
\* update_price_tracking_with_result, which prints the error and returns None
\* (lines 306-308), or returned no data, which prints nothing (line 305); the
\* value returned is dropped at check_flights.py:83.
UpdateWriteLogged ==
    /\ UpdateWriteStep
    /\ \E raised \in BOOLEAN :
        printed' = IF ~last_call'.ok /\ raised THEN printed \cup {UpdateError}
                   ELSE printed

\* Lines 98-126 and 162-175: the row is read again, the owner looked up and the
\* alert decided; formatting a null latest price raises into the inner except.
Alert ==
    /\ pc = "alert"
    /\ \E user \in UserResults :
        LET tracking == get_price_tracking(request_id)
        IN  IF ~tracking.present \/ user = "no_user"
            THEN /\ pc' = "cycle_done"
                 /\ UNCHANGED <<latest_price, decision_made, decided>>
            ELSE /\ latest_price' = tracking.latest_price
                 /\ IF tracking.latest_price = Null
                    THEN /\ pc' = "cycle_done"
                         /\ UNCHANGED <<decision_made, decided>>
                    ELSE /\ decision_made' = TRUE
                         /\ decided' = AlertDecision(tracking.latest_price,
                                            old_minimum_price, old_last_notified_price)
                         /\ pc' = IF decided' /\ user = "with_email"
                                  THEN "send" ELSE "cycle_done"
    /\ UNCHANGED <<price_tracking, now, dry_run, other, active_requests, idx, counters,
                   price, old_minimum_price, old_last_notified_price, current_minimum,
                   email_sent, result, before, send_attempted, transmitted,
                   floor, last_call, owed, audit>>

\* send_price_drop_email and lines 145-161: a dry run answers True and sends
\* nothing; otherwise the message is sent, or credentials are missing, or SMTP
\* fails.
Send ==
    /\ pc = "send"
    /\ send_attempted' = TRUE
    /\ IF dry_run
       THEN email_sent' = TRUE /\ transmitted' = FALSE
       ELSE \E outcome \in {"sent", "no_credentials", "smtp_error"} :
              /\ email_sent' = (outcome = "sent")
              /\ transmitted' = (outcome = "sent")
    /\ pc' = IF ShouldMark(email_sent', dry_run) THEN "mark" ELSE "cycle_done"
    /\ UNCHANGED <<price_tracking, now, dry_run, other, active_requests, idx, counters,
                   price, old_minimum_price, old_last_notified_price, current_minimum,
                   latest_price, result, before, decision_made, decided,
                   floor, last_call, owed, audit>>

\* Lines 153-157: the notified marker is written; the store may reject it.
MarkStep ==
    /\ pc = "mark"
    /\ \E ok \in BOOLEAN :
        LET row == get_price_tracking(request_id)
        IN  /\ result' = (ok /\ row.present)
            /\ price_tracking' =
                IF result'
                THEN [price_tracking EXCEPT
                        ![request_id] = mark_price_notified(row, NotifiedPrice)]
                ELSE price_tracking
    /\ untouched' = Unchanged
    /\ pc' = "cycle_done"
    /\ UNCHANGED <<now, dry_run, other, active_requests, idx, counters,
                   price, old_minimum_price, old_last_notified_price, current_minimum,
                   latest_price, email_sent, history, floor, last_call, owed,
                   run_log, exit_code, told>>

Mark == MarkStep /\ UNCHANGED printed

\* The same step with what it prints: lines 154-157.
MarkLogged ==
    /\ MarkStep
    /\ printed' = IF result' THEN printed ELSE printed \cup {MarkerWarning}

\* Line 53: the loop goes to the next request, or the run returns (line 205).
NextRequest ==
    /\ pc = "cycle_done"
    /\ owed' = [owed EXCEPT ![request_id] =
            IF decided /\ send_attempted /\ ~email_sent
            THEN [set |-> TRUE,
                  baseline |-> Baseline(old_minimum_price, old_last_notified_price),
                  price |-> latest_price]
            ELSE NoOwed]
    /\ ResetLocals
    /\ last_call' = NoCall
    /\ IF idx < Len(active_requests)
       THEN idx' = idx + 1 /\ pc' = "search"
       ELSE idx' = idx /\ pc' = "returned"
    /\ UNCHANGED <<price_tracking, now, dry_run, other, active_requests, counters,
                   floor, run_log, untouched, exit_code>>

EndCycle == NextRequest /\ UNCHANGED <<told, printed>>

\* The same step, with the history of the emails that were sent.
EndCycleTold ==
    /\ NextRequest
    /\ told' = IF transmitted THEN [told EXCEPT ![request_id] = latest_price]
                ELSE told
    /\ UNCHANGED printed

\* The same step; the next cycle has printed nothing yet.
EndCycleLogged ==
    /\ NextRequest
    /\ printed' = {}
    /\ UNCHANGED told

\* Mutant: only a reported failure gives a non-zero status.
ExitStatusIgnoresRaise(raised, failures) == IF ~raised /\ failures > 0 THEN 1 ELSE 0

\* main, lines 214-242: exit 1 when check_all_flights raised or reported a
\* failure, exit 0 otherwise.
ExitStatus(raised, failures) == IF raised \/ failures > 0 THEN 1 ELSE 0

\* main after check_all_flights returned or raised: sys.exit.
Exit ==
    /\ pc \in {"returned", "raised"}
    /\ exit_code' = ExitStatus(pc = "raised", failure_count)
    /\ pc' = "exited"
    /\ UNCHANGED <<price_tracking, now, dry_run, other, active_requests, idx, counters,
                   locals, history, floor, last_call, owed, run_log, untouched,
                   told, printed>>

Next ==
    \/ StartRun
    \/ Search
    \/ ReadOld
    \/ UpdateRead
    \/ UpdateWrite
    \/ Alert
    \/ Send
    \/ Mark
    \/ EndCycle
    \/ Exit

Spec == Init /\ [][Next]_vars

\* The scheduled runs over one watch, with the history of the emails that
\* were sent.
NextTold ==
    \/ StartRunOfA
    \/ Search
    \/ ReadOld
    \/ UpdateRead
    \/ UpdateWrite
    \/ Alert
    \/ Send
    \/ Mark
    \/ EndCycleTold
    \/ Exit

\* Emails are really sent: a dry run sends nothing.
InitTold == Init /\ ~dry_run

SpecTold == InitTold /\ [][NextTold]_vars

\* The scheduled runs over one watch, with the persistence warnings printed.
NextLogged ==
    \/ StartRunOfA
    \/ Search
    \/ ReadOld
    \/ UpdateRead
    \/ UpdateWriteLogged
    \/ Alert
    \/ Send
    \/ MarkLogged
    \/ EndCycleLogged
    \/ Exit

SpecLogged == Init /\ [][NextLogged]_vars

\* ------------------------------------------------------------- SpecRace
\* dashboard.py, lines 138-150, and database.py, line 274: the owner's manual
\* search of watch A gives a price, and update_price_tracking_with_result reads
\* the row.
DashSearch ==
    /\ dash.pc = "idle"
    /\ \E p \in PriceValues :
        /\ Truthy(p)
        /\ dash' = [pc |-> "write", price |-> p,
                    current_minimum |-> get_price_tracking("A").minimum_price]
    /\ UNCHANGED <<price_tracking, now, dry_run, crud, norm, request, call, pc,
                   active_requests, idx, counters, locals, history, floor,
                   last_call, owed, audit>>

\* database.py, lines 275-308: the update statement of the manual search,
\* which the store may reject.
DashWrite ==
    /\ dash.pc = "write"
    /\ \E ok \in BOOLEAN :
        LET row == get_price_tracking("A")
            applied == ok /\ row.present
        IN  /\ price_tracking' =
                IF applied
                THEN [price_tracking EXCEPT
                        !["A"] = WithResultRow(row, dash.current_minimum, dash.price)]
                ELSE price_tracking
            /\ floor' = IF applied
                        THEN [floor EXCEPT !["A"] = FloorAfter(@, dash.price)]
                        ELSE floor
    /\ dash' = NoManualSearch
    /\ UNCHANGED <<now, dry_run, crud, norm, request, call, pc,
                   active_requests, idx, counters, locals, history,
                   last_call, owed, audit>>

\* A scheduled run over watch A, of the few that are raced.
StartRace == now < MaxRaceRuns /\ StartRunOfA

\* The scheduled runs over watch A while its owner searches it by hand.
NextRace ==
    \/ StartRace
    \/ Search
    \/ ReadOld
    \/ UpdateRead
    \/ UpdateWrite
    \/ Alert
    \/ Send
    \/ Mark
    \/ EndCycle
    \/ Exit
    \/ DashSearch
    \/ DashWrite

SpecRace == InitTold /\ [][NextRace]_vars

\* ------------------------------------------------------------- SpecCall
\* The parameters of search_flights (serpapi_service.py, lines 90-92) and those
\* without a default.
SearchParameters ==
    {"depart_from", "arrive_at", "departure_date", "return_date", "passengers",
     "preferred_airlines"}
RequiredParameters == {"depart_from", "arrive_at", "departure_date"}

\* check_flights.py, lines 63-70: the keyword arguments of the call.
CallKeywords(r) ==
    [depart_from |-> r.depart_from,
     arrive_at |-> r.arrive_at,
     departure_date |-> r.departure_date,
     return_date |-> r.return_date,
     preferred_airlines |-> r.preferred_airlines,
     stops |-> IF r.stops = Null THEN 0 ELSE r.stops]

\* Python binds keyword arguments by name: a keyword that is no parameter, or a
\* parameter without default that is not given, raises TypeError.
Binds(kwargs) ==
    /\ DOMAIN kwargs \subseteq SearchParameters
    /\ RequiredParameters \subseteq DOMAIN kwargs

\* search_flights, lines 90-92: the values of the parameters inside the
\* function, a parameter that is not given taking its default.
search_flights_params(kwargs) ==
    [depart_from |-> kwargs.depart_from,
     arrive_at |-> kwargs.arrive_at,
     departure_date |-> kwargs.departure_date,
     return_date |-> IF "return_date" \in DOMAIN kwargs THEN kwargs.return_date
                     ELSE NoDate,
     passengers |-> IF "passengers" \in DOMAIN kwargs THEN kwargs.passengers ELSE 1,
     preferred_airlines |->
        IF "preferred_airlines" \in DOMAIN kwargs THEN kwargs.preferred_airlines
        ELSE [present |-> FALSE, list |-> << >>]]

\* check_flights.py, lines 61-70 and 195-203: the scheduler calls the adapter
\* for the watch; a TypeError is caught as the failure of the cycle.
CallSearch ==
    /\ ~call.made
    /\ LET kwargs == CallKeywords(request)
       IN  call' = IF Binds(kwargs)
                   THEN [made |-> TRUE, raised |-> FALSE,
                         params |-> search_flights_params(kwargs)]
                   ELSE [made |-> TRUE, raised |-> TRUE, params |-> NoParams]
    /\ UNCHANGED <<price_tracking, now, dry_run, crud, norm, request, dash, pc,
                   active_requests, idx, counters, locals, history, floor,
                   last_call, owed, audit>>

\* Any well-formed watch.
InitCall ==
    /\ search_requests = [w \in Watches |-> "u1"]
    /\ price_tracking = [w \in Watches |-> FreshRecord]
    /\ NoResponse
    /\ InitLoop
    /\ ~dry_run
    /\ request \in Requests
    /\ call = NotCalled
    /\ dash = NoManualSearch

CallNext == CallSearch

SpecCall == InitCall /\ [][CallNext]_vars

\* ------------------------------------------------------------- SpecStore
run_vars == <<dry_run, other, pc, active_requests, idx, counters, locals,
              decision_made, decided, send_attempted, transmitted, owed, audit>>

\* One call update_price_tracking_with_result(id, p, ...): read, compute, write.
\* The write changes the row matching the id; a rejected write changes nothing.
CallUpdateWithResult(id, p) ==
    /\ \E ok \in BOOLEAN :
        LET row == get_price_tracking(id)
            applied == ok /\ row.present
        IN  /\ price_tracking' =
                IF applied
                THEN [price_tracking EXCEPT ![id] = WithResultRow(row, row.minimum_price, p)]
                ELSE price_tracking
            /\ floor' = IF applied THEN [floor EXCEPT ![id] = FloorAfter(@, p)] ELSE floor
            /\ before' = row
            /\ last_call' = [fn |-> "update_price_tracking_with_result",
                             id |-> id, price |-> p, ok |-> applied]
    /\ UNCHANGED <<now, run_vars>>

\* One call update_price_tracking(id, p).
CallUpdatePriceTracking(id, p) ==
    /\ \E ok \in BOOLEAN :
        LET row == get_price_tracking(id)
            applied == ok /\ row.present
        IN  /\ price_tracking' =
                IF applied
                THEN [price_tracking EXCEPT ![id] = BasicRow(row, row.minimum_price, p)]
                ELSE price_tracking
            /\ floor' = IF applied THEN [floor EXCEPT ![id] = FloorAfter(@, p)] ELSE floor
            /\ before' = row
            /\ last_call' = [fn |-> "update_price_tracking",
                             id |-> id, price |-> p, ok |-> applied]
    /\ UNCHANGED <<now, run_vars>>

StoreNext ==
    \/ \E id \in Watches, p \in PriceArgs : CallUpdateWithResult(id, p)
    \/ \E id \in Watches, p \in PriceArgs : CallUpdatePriceTracking(id, p)

SpecStore == Init /\ [][StoreNext]_vars

\* ------------------------------------------------------------- SpecMarked
\* check_flights.py, lines 152-153: one call mark_price_notified(id, latest_price)
\* with the latest price of the row; the store may reject the write.
CallMarkPriceNotified(id) ==
    /\ get_price_tracking(id).present
    /\ get_price_tracking(id).latest_price # Null
    /\ \E ok \in BOOLEAN :
        LET row == get_price_tracking(id)
        IN  /\ price_tracking' =
                IF ok
                THEN [price_tracking EXCEPT
                        ![id] = mark_price_notified(row, row.latest_price)]
                ELSE price_tracking
            /\ before' = row
            /\ last_call' = [fn |-> "mark_price_notified", id |-> id,
                             price |-> row.latest_price, ok |-> ok]
    /\ UNCHANGED <<now, floor, run_vars>>

\* The row of one watch under the two tracking updates and the notified-marker
\* write.
MarkedNext ==
    \/ \E p \in PriceArgs : CallUpdateWithResult("A", p)
    \/ \E p \in PriceArgs : CallUpdatePriceTracking("A", p)
    \/ CallMarkPriceNotified("A")

SpecMarked == Init /\ [][MarkedNext]_vars

\* ------------------------------------------------------------- SpecCrud
run_frame == <<now, dry_run, pc, active_requests, idx, counters, locals,
                    history, floor, owed, audit>>
crud_frame == <<run_frame, norm, binding>>

\* create_search_request, lines 68-96: the watch is inserted under a new id;
\* then create_price_tracking (lines 193-209) inserts its row, and a failure
\* of that insert is swallowed. A failed watch insert creates nothing.
CreateSearchRequest(id, user_id) ==
    /\ search_requests[id] = NoOwner
    /\ \E inserted \in BOOLEAN, tracked \in BOOLEAN :
        /\ search_requests' =
              IF inserted THEN [search_requests EXCEPT ![id] = user_id]
              ELSE search_requests
        /\ price_tracking' =
              IF inserted /\ tracked
              THEN [price_tracking EXCEPT ![id] = FreshRecord]
              ELSE price_tracking
        /\ before' = get_price_tracking(id)
        /\ last_call' = [fn |-> "create_search_request", id |-> id,
                         price |-> Null, ok |-> inserted]
    /\ UNCHANGED <<crud_frame, decision_made, decided, send_attempted, transmitted>>

\* The foreign key of price_tracking: deleting the watch deletes its row.
CascadeDelete(id) == [price_tracking EXCEPT ![id] = NoRecord]

\* delete_search_request, lines 178-191: the ownership is verified, then the
\* watch is deleted; the store may reject the delete.
DeleteSearchRequest(id, user_id) ==
    /\ \E deleted \in BOOLEAN :
        LET owned == search_requests[id] = user_id
            done == owned /\ deleted
        IN  /\ search_requests' =
                  IF done THEN [search_requests EXCEPT ![id] = NoOwner]
                  ELSE search_requests
            /\ price_tracking' = IF done THEN CascadeDelete(id) ELSE price_tracking
            /\ before' = get_price_tracking(id)
            /\ last_call' = [fn |-> "delete_search_request", id |-> id,
                             price |-> Null, ok |-> done]
    /\ UNCHANGED <<crud_frame, decision_made, decided, send_attempted, transmitted>>

\* No watch has been created yet.
InitCrud ==
    /\ search_requests = [w \in Watches |-> NoOwner]
    /\ price_tracking = [w \in Watches |-> NoRecord]
    /\ NoResponse
    /\ InitRun

CrudNext ==
    \/ \E id \in Watches, user_id \in Users : CreateSearchRequest(id, user_id)
    \/ \E id \in Watches, user_id \in Users : DeleteSearchRequest(id, user_id)
    \/ \E id \in Watches, p \in PriceArgs : CallUpdateWithResult(id, p)

SpecCrud == InitCrud /\ [][CrudNext]_vars

\* ------------------------------------------------------------- SpecNorm
\* search_flights, line 149: the response is normalized.
ExtractCheapestFlight ==
    /\ ~normalized
    /\ extracted' = extract_cheapest_flight(data)
    /\ normalized' = TRUE
    /\ UNCHANGED <<price_tracking, search_requests, data, last_call, run_frame,
                   binding>>

\* Any response of the provider.
InitNorm ==
    /\ search_requests = [w \in Watches |-> "u1"]
    /\ price_tracking = [w \in Watches |-> FreshRecord]
    /\ data \in Payloads
    /\ extracted = NoQuote
    /\ normalized = FALSE
    /\ InitRun

NormNext == ExtractCheapestFlight

SpecNorm == InitNorm /\ [][NormNext]_vars

\* ------------------------------------------------------------- properties
InCycle == pc \in {"read_old", "update_read", "update_write", "alert",
                   "send", "mark", "cycle_done"}
CycleDone == pc = "cycle_done"
\* The baseline of the stored row as it was before the cycle's first write.
BaselineBefore == Baseline(before.minimum_price, before.last_notified_price)

C2_StrictDrop ==
    (InCycle /\ decision_made) =>
        (decided <=> (BaselineBefore # Null /\ latest_price < BaselineBefore))

\* A price equal to the last notified price, which is above the minimum.
C2_Witness ==
    /\ CycleDone /\ decision_made /\ ~decided
    /\ before.last_notified_price # Null
    /\ before.minimum_price < before.last_notified_price
    /\ latest_price = before.last_notified_price

\* C3 (Spec): a cycle that starts from a row with minimum_price and
\* last_notified_price both null decides no alert and sends no email.
C3_NoBaselineNoAlert ==
    (InCycle /\ before.minimum_price = Null /\ before.last_notified_price = Null)
        => (~decided /\ ~send_attempted /\ ~transmitted)

\* The first priced observation: the decision was taken and the floor was set.
C3_Witness ==
    /\ CycleDone /\ decision_made
    /\ before.present
    /\ before.minimum_price = Null /\ before.last_notified_price = Null
    /\ price # Null
    /\ price_tracking[request_id].minimum_price = price

\* C4 (Spec): the minimum and the last notified price the decision uses are the
\* ones stored before any write of the cycle, so a price below the old minimum
\* of a never-notified watch is a drop even after it became the new minimum.
C4_BaselineBeforeWrites ==
    (InCycle /\ pc # "read_old" /\ Truthy(price)) =>
        /\ old_minimum_price = before.minimum_price
        /\ old_last_notified_price = before.last_notified_price
        /\ (decision_made /\ before.last_notified_price = Null
            /\ before.minimum_price # Null /\ latest_price < before.minimum_price)
              => decided

\* The update stored the new minimum and the alert was still decided.
C4_Witness ==
    /\ CycleDone /\ decided
    /\ price_tracking[request_id].minimum_price = latest_price
    /\ latest_price < old_minimum_price
    /\ old_last_notified_price = Null

\* C5 (Spec): when an alert is decided and the email adapter returns failure,
\* last_notified_price after the cycle is what it was before the cycle.
C5_MarkerAfterSend ==
    (CycleDone /\ decided /\ send_attempted /\ ~email_sent) =>
        price_tracking[request_id].last_notified_price = before.last_notified_price

\* A failed real send of a decided alert whose update was stored.
C5_Witness ==
    /\ CycleDone /\ decided /\ send_attempted /\ ~email_sent /\ ~dry_run
    /\ price_tracking[request_id].minimum_price = latest_price
    /\ before.last_notified_price # Null

C7_Original ==
    (CycleDone /\ dry_run /\ decided /\ send_attempted) =>
        /\ email_sent /\ ~transmitted
        /\ price_tracking[request_id].last_notified_price = latest_price

\* C7 amended (Spec): in a dry run with an alert decided, the adapter reports
\* success, transmits nothing, and the cycle leaves last_notified_price as it
\* was before the cycle.
C7_DryRunLeavesMarker ==
    (CycleDone /\ dry_run /\ decided /\ send_attempted) =>
        /\ email_sent /\ ~transmitted
        /\ price_tracking[request_id].last_notified_price = before.last_notified_price

\* A dry-run cycle with a decided alert and a stored update.
C7_Witness ==
    /\ CycleDone /\ dry_run /\ decided /\ send_attempted /\ email_sent
    /\ price_tracking[request_id].minimum_price = latest_price

\* C8 as stated (Spec): after a cycle whose decided alert failed to send, the
\* next cycle of the watch decides on the same baseline, and decides the alert
\* again for a quote at the same price.
C8_OwedAlertRetried ==
    (CycleDone /\ decision_made /\ owed[request_id].set) =>
        /\ Baseline(old_minimum_price, old_last_notified_price)
              = owed[request_id].baseline
        /\ (latest_price = owed[request_id].price => decided)

EmptyResultCycle == CycleDone /\ run_log[idx] = "no_price" /\ price = Null

\* C11 as stated (Spec): when the search of a watch succeeds and finds no
\* flight, the cycle stores a tracking update with latest_price null and
\* last_checked the time of this check, leaves the minimum as it was and
\* raises no alert.
C11_EmptyResultPersisted ==
    (EmptyResultCycle /\ before.present) =>
        /\ price_tracking[request_id].latest_price = Null
        /\ price_tracking[request_id].last_checked = now
        /\ price_tracking[request_id].minimum_price = before.minimum_price
        /\ ~decided /\ ~send_attempted

\* C12 as stated (Spec): a successful search that finds no flights adds no
\* error entry and no failure, so a run whose searches all succeeded returns
\* failure_count = 0.
C12_NoFlightsNotAnError ==
    /\ EmptyResultCycle =>
          \A i \in 1..Len(errors) : errors[i].request_id # request_id
    /\ (pc = "returned"
        /\ \A i \in 1..Len(run_log) : run_log[i] \in {"priced", "no_price"})
          => failure_count = 0

\* The run over <<A, B>> in which the search for A failed and the search for B
\* gave a price, at the end of B's cycle.
OneFailedOnePriced ==
    /\ CycleDone /\ active_requests = <<"A", "B">> /\ idx = 2
    /\ run_log[1] \in SearchFaults /\ run_log[2] = "priced"

C14_RunNeverAborts ==
    /\ pc # "raised"
    /\ pc = "returned" => Len(run_log) = Len(active_requests)

\* C15 (Spec): main exits with a non-zero status whenever check_all_flights
\* raised or returned failure_count > 0, and with 0 exactly when it returned
\* failure_count = 0.
C15_ExitStatus ==
    [][(pc # "exited" /\ pc' = "exited") =>
          /\ (pc = "raised" \/ failure_count > 0) => exit_code' # 0
          /\ exit_code' = 0 <=> (pc = "returned" /\ failure_count = 0)]_vars

\* The run raised after one success and no failure, and main exited with 1.
C15_Witness ==
    /\ pc = "exited" /\ exit_code = 1
    /\ failure_count = 0 /\ success_count = 1

\* C16 as stated (SpecCrud): after any sequence of create_search_request and
\* delete_search_request calls, failed store calls included, a watch exists
\* exactly when its tracking row exists, and the row of a watch that was just
\* created has minimum_price, latest_price and last_notified_price null.
C16_OneToOne ==
    /\ \A w \in Watches :
          (search_requests[w] # NoOwner) <=> price_tracking[w].present
    /\ (last_call.fn = "create_search_request" /\ last_call.ok) =>
          /\ price_tracking[last_call.id].present
          /\ price_tracking[last_call.id].minimum_price = Null
          /\ price_tracking[last_call.id].latest_price = Null
          /\ price_tracking[last_call.id].last_notified_price = Null

\* The total price of a flight entry: the number of its price block, or its
\* bare number; an entry without such a number counts as +infinity.
TotalPrice(x) ==
    IF x.price.kind = "block" /\ x.price.total \notin {Null, Text} THEN x.price.total
    ELSE IF x.price.kind = "number" THEN x.price.total
    ELSE Infinity
Parseable(x) == TotalPrice(x) < Infinity

\* The result is an entry of the list with the least total price.
TakenAtMinimum(l) ==
    /\ extracted.found
    /\ \E i \in 1..Len(l) :
          /\ extracted.raw_data = l[i]
          /\ \A j \in 1..Len(l) : TotalPrice(l[i]) <= TotalPrice(l[j])

\* The first of other_flights and flights that is present and non-empty, when
\* best_flights is not.
UnrankedList ==
    IF NonEmpty(data.best_flights) THEN << >>
    ELSE IF NonEmpty(data.other_flights) THEN data.other_flights.list
    ELSE IF NonEmpty(data.flights) THEN data.flights.list
    ELSE << >>

\* C17 as stated (SpecNorm): the candidate is taken from the first of
\* best_flights, other_flights, flights that is present with a non-empty list:
\* the first entry of best_flights, an entry of least total price of the other
\* two; when no key is present with a non-empty list the result is null.
C17_KeyPriority ==
    normalized =>
        IF NonEmpty(data.best_flights)
        THEN extracted.found /\ extracted.raw_data = data.best_flights.list[1]
        ELSE IF UnrankedList # << >> THEN TakenAtMinimum(UnrankedList)
        ELSE ~extracted.found

\* C18 as stated (SpecNorm): in an unranked list an entry whose price is
\* missing or unparseable counts as +infinity: when some entry has a parseable
\* price the candidate is an entry of least parseable price, and when no entry
\* has a price the result is null.
C18_UnrankedMinimum ==
    (normalized /\ UnrankedList # << >>) =>
        IF \E i \in 1..Len(UnrankedList) : Parseable(UnrankedList[i])
        THEN TakenAtMinimum(UnrankedList) /\ Parseable(extracted.raw_data)
        ELSE ~extracted.found

\* C19 as stated (SpecNorm): the airline list of a quote has no duplicates and
\* holds, in the order of first encounter, every non-empty airline name of the
\* parsed legs, outbound then return.
C19_AirlineList ==
    (normalized /\ extracted.found /\ ~extracted.error) =>
        LET legs == extracted.outbound_segments \o extracted.return_segments
            a == extracted.airlines
            First(x) == CHOOSE k \in 1..Len(legs) :
                            /\ legs[k].airline = x
                            /\ \A h \in 1..(k - 1) : legs[h].airline # x
        IN  /\ \A i, j \in 1..Len(a) : i # j => a[i] # a[j]
            /\ {a[i] : i \in 1..Len(a)}
                  = {legs[k].airline : k \in 1..Len(legs)} \ {""}
            /\ \A i, j \in 1..Len(a) : i < j => First(a[i]) < First(a[j])

\* The entries the candidate can be: the first of best_flights, or any entry
\* of the unranked list.
Candidates ==
    IF NonEmpty(data.best_flights) THEN {data.best_flights.list[1]}
    ELSE {UnrankedList[i] : i \in 1..Len(UnrankedList)}

\* C20 as stated (SpecNorm): when the parsing of the candidate fails on its
\* price, the result is a quote with a null price, no airlines, no segments
\* and an error note, not a plain null.
C20_ErrorQuote ==
    (normalized /\ Candidates # {} /\ \A x \in Candidates : PriceRaises(x.price)) =>
        /\ extracted.found /\ extracted.error
        /\ extracted.price = Null
        /\ extracted.airlines = << >>
        /\ extracted.outbound_segments = << >>
        /\ extracted.return_segments = << >>

\* The parsed segments are, in input order, exactly the legs that parse.
KeptInOrder(parsed, legs) ==
    LET ok == {i \in 1..Len(legs) : legs[i].parses}
        Nth(k) == CHOOSE i \in ok : Cardinality({j \in ok : j <= i}) = k
    IN  /\ Len(parsed) = Cardinality(ok)
        /\ \A k \in 1..Len(parsed) : parsed[k].airline = legs[Nth(k)].airline

\* The flight entry without the legs that fail to parse.
WithoutFailingLegs(x) ==
    [x EXCEPT !.flights.list = SelectSeq(@, LAMBDA l : l.parses),
              !.return_flights.list = SelectSeq(@, LAMBDA l : l.parses)]

\* C21 (SpecNorm): the segments of a quote are, in input order, exactly the
\* legs of the candidate that parse, and the legs that fail change neither
\* the price, nor the currency, nor the link of the quote.
C21_BestEffortLegs ==
    (normalized /\ extracted.found) =>
        LET x == extracted.raw_data
            clean == parse_flight_data(WithoutFailingLegs(x))
        IN  /\ ~extracted.error =>
                  /\ KeptInOrder(extracted.outbound_segments, x.flights.list)
                  /\ KeptInOrder(extracted.return_segments, x.return_flights.list)
            /\ extracted.outbound_segments = clean.outbound_segments
            /\ extracted.return_segments = clean.return_segments
            /\ extracted.price = clean.price
            /\ extracted.currency = clean.currency
            /\ extracted.link = clean.link

\* A failing leg between two legs that parse: both are kept, with the price,
\* the currency and the link of the entry.
C21_Witness ==
    /\ normalized /\ extracted.found
    /\ Len(extracted.raw_data.flights.list) = 3
    /\ extracted.raw_data.flights.list[1].parses
    /\ ~extracted.raw_data.flights.list[2].parses
    /\ extracted.raw_data.flights.list[3].parses
    /\ extracted.outbound_segments = <<[airline |-> "DL"], [airline |-> "UA"]>>
    /\ extracted.price = MaxPrice
    /\ extracted.currency = "EUR"
    /\ extracted.link # ""

C23_UpdateKeepsMarker ==
    LET row == get_price_tracking(last_call.id)
    IN  /\ last_call.fn \in {"update_price_tracking_with_result",
                            "update_price_tracking"} =>
                row.last_notified_price = before.last_notified_price
        /\ (last_call.fn # "none"
            /\ row.last_notified_price # before.last_notified_price) =>
                (last_call.fn = "mark_price_notified" /\ last_call.ok)

\* An accepted update with a price other than the marker already stored, and
\* the marker is still there.
C23_Witness ==
    /\ last_call.fn = "update_price_tracking_with_result"
    /\ last_call.ok
    /\ last_call.price # Null
    /\ before.last_notified_price # Null
    /\ last_call.price # before.last_notified_price
    /\ get_price_tracking(last_call.id).latest_price = last_call.price
    /\ get_price_tracking(last_call.id).last_notified_price =
            before.last_notified_price

\* A cycle whose tracking update the store rejected.
UpdateRejected ==
    CycleDone /\ last_call.fn = "update_price_tracking_with_result" /\ ~last_call.ok

\* A cycle whose notified-marker write the store rejected.
MarkerRejected ==
    CycleDone /\ send_attempted /\ email_sent /\ ~dry_run /\ ~result

\* C24 (SpecLogged): when the store rejects the tracking update or the
\* notified-marker write of a cycle, the cycle has printed a warning about it
\* by the time it ends, and the run goes on to the next watch or returns.
C24_PersistenceFailureWarned ==
    /\ UpdateRejected => UpdateError \in printed
    /\ MarkerRejected => MarkerWarning \in printed

\* The half of C24 that the code has: a rejected marker write is warned about.
MarkerRejectionWarned == MarkerRejected => MarkerWarning \in printed

\* C25 (SpecCall): the scheduler calls the search adapter with the watch's own
\* origin, destination, departure date, return date, passenger count and
\* preferred airlines, and the adapter accepts the call for every well-formed
\* watch.
C25_CallAccepted ==
    call.made =>
        /\ ~call.raised
        /\ call.params.depart_from = request.depart_from
        /\ call.params.arrive_at = request.arrive_at
        /\ call.params.departure_date = request.departure_date
        /\ call.params.return_date = request.return_date
        /\ call.params.passengers = request.passengers
        /\ call.params.preferred_airlines = request.preferred_airlines

\* The positions of the run's list whose search gave a usable price.
PricedChecks == {i \in 1..Len(run_log) : run_log[i] = "priced"}
FailedChecks == {i \in 1..Len(run_log) : run_log[i] # "priced"}

\* C26 (Spec): when check_all_flights returns for n active watches,
\* success_count + failure_count = n, errors has failure_count entries, and
\* each watch was counted once: as a success when its search gave a price,
\* whatever the alert phase did afterwards, and as a failure with its own
\* entry in errors otherwise.
C26_CountersConsistent ==
    pc = "returned" =>
        /\ Len(run_log) = Len(active_requests)
        /\ success_count + failure_count = Len(active_requests)
        /\ Len(errors) = failure_count
        /\ success_count = Cardinality(PricedChecks)
        /\ failure_count = Cardinality(FailedChecks)
        /\ \A k \in 1..Len(errors) :
              \E i \in FailedChecks :
                /\ errors[k].request_id = active_requests[i]
                /\ Cardinality({j \in FailedChecks : j < i}) = k - 1

\* A run over two watches returned: the first was priced, the second was not.
C26_Witness ==
    /\ pc = "returned"
    /\ Len(active_requests) = 2
    /\ run_log[1] = "priced" /\ run_log[2] # "priced"
    /\ success_count = 1 /\ failure_count = 1
    /\ Len(errors) = 1 /\ errors[1].request_id = active_requests[2]

\* C27 (SpecTold): last_notified_price never increases: a notified-marker write
\* that was stored over a non-null marker stored a strictly lower value.
C27_MarkerDecreases ==
    (CycleDone /\ result /\ before.last_notified_price # Null) =>
        get_price_tracking(request_id).last_notified_price
            < before.last_notified_price

\* A second email of a watch: the marker went from one price to a lower one.
C27_Witness ==
    /\ CycleDone /\ result /\ transmitted
    /\ before.last_notified_price # Null
    /\ get_price_tracking(request_id).last_notified_price = latest_price
    /\ latest_price < before.last_notified_price

\* C28 (SpecRace): whenever minimum_price and last_notified_price of a row are
\* both non-null, minimum_price <= last_notified_price.
C28_MinimumBelowMarker ==
    \A w \in Watches :
        LET row == get_price_tracking(w)
        IN  (row.present /\ row.minimum_price # Null
             /\ row.last_notified_price # Null) =>
                row.minimum_price <= row.last_notified_price

\* C29 (SpecRace): the price a cycle takes the alert decision on, and the price
\* it writes to last_notified_price, is the quote price of that cycle's
\* search, also when the tracking update was rejected or a manual search
\* updated the row between the update and the re-read.
C29_DecisionOnQuote ==
    /\ (CycleDone /\ decision_made) => latest_price = price
    /\ (CycleDone /\ result) =>
            get_price_tracking(request_id).last_notified_price = price

\* C30 (SpecRace): the floor survives interleaving: when the tracking updates
\* of a scheduled run and of a manual search interleave their reads and
\* writes, the stored minimum is the least price of the updates that were
\* stored, so it never increases.
C30_FloorSurvivesInterleaving ==
    LET row == get_price_tracking("A")
    IN  row.present => row.minimum_price = floor["A"]

=============================================================================
